---- MODULE Spec2Model ----
(***************************************************************************)
(* GreenCore API: the API-key admission gate (src/app.py middleware        *)
(* verify_dynamic_api_key), the YooKassa payment webhook and the           *)
(* passwordless login flow (src/auth/router.py), as state machines over    *)
(* the relational store they share.                                        *)
(***************************************************************************)
EXTENDS Integers, Sequences, FiniteSets, TLC

(***************************************************************************)
(* Bounds of the model.                                                    *)
(***************************************************************************)
NumProcs == 2
MaxQuota == 2
MaxTime == 1
MaxDeliveries == 2
NumCalls == 2
NumSessions == 2
NumIssues == 2
MaxStoredZone == 13
\* Cap of a key's usage counter: room for one admission past every quota.
MaxReqs == MaxQuota + 1

\* SQL NULL / Python None in an integer column.
NULL == -1

Procs == 1..NumProcs

(***************************************************************************)
(* State.                                                                  *)
(***************************************************************************)
VARIABLES
    now,        \* datetime.utcnow(), a logical clock
    apiKeys,    \* table api_keys: token -> row
    apiLogs,    \* table api_logs: the number of rows per token
    proc,       \* per worker: the request it serves through the middleware
    pendingPayments,  \* table pending_payments: payment_id -> row
    deliv,      \* per webhook delivery: its payload and its background tasks
    users,      \* table users: id -> row
    authTokens, \* table auth_tokens: token -> row
    call,       \* per /auth/verify call: its transaction
    sess,       \* per POST /api/payment/session call: its progress
    keyCreated, \* column created_at of api_keys: token -> time
    ukey,       \* per POST /create_user_key call: its progress
    preq,       \* the GET /plants request being served, with its query
    zq          \* a zone_usda query against one stored zone

gateVars == <<apiLogs, proc>>
payVars == <<pendingPayments, deliv>>
authVars == <<users, authTokens, call>>
sessVars == <<sess>>
issueVars == <<keyCreated, ukey>>
plantVars == <<preq, zq>>
vars == <<now, apiKeys, apiLogs, proc, pendingPayments, deliv, users,
          authTokens, call, sess, keyCreated, ukey, preq, zq>>

(***************************************************************************)
(* Credentials and key rows.                                               *)
(***************************************************************************)
\* request.headers.get("X-API-Key") is None or empty.
NoCred == 0
\* The token of the key row of the store, and a token no row carries.
KeyA == 1
Stranger == 2
Creds == {NoCred, KeyA, Stranger}

NoRow ==
    [api_key |-> NoCred, owner |-> "", plan_name |-> "", active |-> FALSE,
     expires_at |-> NULL, limit_total |-> NULL, requests |-> 0,
     max_page |-> NULL]

\* A row of api_keys; requests starts at the column default 0.
KeyRow(k, o, pl, act, exp, lt, mp, rq) ==
    [api_key |-> k, owner |-> o, plan_name |-> pl, active |-> act,
     expires_at |-> exp, limit_total |-> lt, requests |-> rq,
     max_page |-> mp]

\* The empty table.
NoRows == [k \in {} |-> NoRow]

(***************************************************************************)
(* Request paths, as the character sequences the gate compares.            *)
(***************************************************************************)
PathChars ==
    ( "/plants"      :> <<"/", "p", "l", "a", "n", "t", "s">> ) @@
    ( "/plant/7"     :> <<"/", "p", "l", "a", "n", "t", "/", "7">> ) @@
    ( "/health"      :> <<"/", "h", "e", "a", "l", "t", "h">> )

Paths == DOMAIN PathChars

\* open_paths of the middleware.
open_paths ==
    { <<"/", "d", "o", "c", "s">>,
      <<"/", "o", "p", "e", "n", "a", "p", "i", ".", "j", "s", "o", "n">>,
      <<"/", "h", "e", "a", "l", "t", "h">>,
      <<"/", "g", "e", "n", "e", "r", "a", "t", "e", "_", "k", "e", "y">>,
      <<"/", "c", "r", "e", "a", "t", "e", "_", "u", "s", "e", "r", "_", "k", "e", "y">>,
      <<"/", "p", "l", "a", "n", "s">>,
      <<"/", "a", "p", "i", "/", "p", "a", "y", "m", "e", "n", "t", "/",
        "s", "e", "s", "s", "i", "o", "n">>,
      <<"/", "a", "p", "i", "/", "p", "a", "y", "m", "e", "n", "t", "/",
        "w", "e", "b", "h", "o", "o", "k">>,
      <<"/", "a", "p", "i", "/", "p", "a", "y", "m", "e", "n", "t", "s", "/",
        "l", "a", "t", "e", "s", "t">> }

\* str.startswith
StartsWith(s, p) ==
    /\ Len(p) <= Len(s)
    /\ \A i \in 1..Len(p) : s[i] = p[i]

\* str.rstrip("/")
RECURSIVE RStripSlash(_)
RStripSlash(s) ==
    IF Len(s) > 0 /\ s[Len(s)] = "/"
    THEN RStripSlash(SubSeq(s, 1, Len(s) - 1))
    ELSE s

\* The two path tests of the middleware that let a request through unchecked.
IsOpenPath(path) ==
    \/ StartsWith(PathChars[path], <<"/", "a", "u", "t", "h">>)
    \/ \E p \in open_paths :
          StartsWith(RStripSlash(PathChars[path]), RStripSlash(p))

(***************************************************************************)
(* The admission gate: verify_dynamic_api_key.                             *)
(***************************************************************************)
\* Mutant: a lookup that falls back to the first row of the table.
KeyLookup_anyRow(cred) ==
    IF cred \in DOMAIN apiKeys THEN apiKeys[cred]
    ELSE IF DOMAIN apiKeys # {} THEN apiKeys[CHOOSE k \in DOMAIN apiKeys : TRUE]
    ELSE NoRow

\* The key lookup the middleware makes before it reads row._mapping.
KeyLookup(cred) ==
    IF cred \in DOMAIN apiKeys THEN apiKeys[cred] ELSE NoRow

\* The rejection of a credential that matches no row.
InvalidCredential(r) == r = NoRow

Reject(code, text) == [kind |-> "reject", status |-> code, detail |-> text]
Admit == [kind |-> "admit", status |-> 0, detail |-> ""]
Pass == [kind |-> "pass", status |-> 0, detail |-> ""]

\* if not r["active"]
InactiveKey(r) == ~r.active

\* if r["expires_at"] and r["expires_at"] < datetime.utcnow()
ExpiredKey(r, t) == r.expires_at # NULL /\ r.expires_at < t

\* if r["limit_total"] and r["requests"] >= r["limit_total"]
\* (Python truth value: a limit of 0 counts as no limit)
LimitExceeded(r) ==
    r.limit_total # NULL /\ r.limit_total # 0 /\ r.requests >= r.limit_total

\* Mutant: the limit is tested before the active flag and the expiry.
RowDecision_limitFirst(r, t) ==
    IF LimitExceeded(r) THEN Reject(429, "Request limit exceeded")
    ELSE IF InactiveKey(r) THEN Reject(403, "Inactive API key")
    ELSE IF ExpiredKey(r, t) THEN Reject(403, "API key expired")
    ELSE Admit

\* The checks on the row read, in the order of the code.
RowDecision(r, t) ==
    IF InactiveKey(r) THEN Reject(403, "Inactive API key")
    ELSE IF ExpiredKey(r, t) THEN Reject(403, "API key expired")
    ELSE IF LimitExceeded(r) THEN Reject(429, "Request limit exceeded")
    ELSE Admit

\* Mutant: the X-API-Key header is demanded before the path is looked at.
GateDecision_credFirst(method, path, cred, r, t) ==
    IF method = "OPTIONS" THEN Pass
    ELSE IF cred = NoCred THEN Reject(401, "Missing API key")
    ELSE IF IsOpenPath(path) THEN Pass
    ELSE IF InvalidCredential(r) THEN Reject(403, "Invalid API key")
    ELSE RowDecision(r, t)

\* The whole decision of the middleware for one request.
GateDecision(method, path, cred, r, t) ==
    IF method = "OPTIONS" THEN Pass
    ELSE IF IsOpenPath(path) THEN Pass
    ELSE IF cred = NoCred THEN Reject(401, "Missing API key")
    ELSE IF InvalidCredential(r) THEN Reject(403, "Invalid API key")
    ELSE RowDecision(r, t)

(***************************************************************************)
(* One request through the middleware, in the steps other requests can     *)
(* interleave with: the gate (one read of the key row), the endpoint       *)
(* handler (call_next), the usage accounting (its own transaction), and    *)
(* the delivery of the response, after which the worker is free again.     *)
(***************************************************************************)
Methods == {"GET", "OPTIONS"}

Idle ==
    [pc |-> "idle", path |-> "/plants", cred |-> NoCred, kind |-> "none",
     status |-> 0, detail |-> "", handled |-> FALSE]

\* What call_next answers: GET /plant/{id} raises 404 for an unknown id.
HandlerStatus(path, kind) ==
    IF path = "/plant/7" /\ kind = "admit" THEN {200, 404} ELSE {200}

\* UPDATE api_keys SET requests=requests+1 WHERE api_key=:key
ChargeKey(keys, k) ==
    [t \in DOMAIN keys |->
        IF t = k THEN [keys[t] EXCEPT !.requests = @ + 1] ELSE keys[t]]

\* INSERT INTO api_logs (api_key, endpoint, status_code): the rows per key.
LogRequest(logs, k) ==
    IF k \in DOMAIN logs
    THEN [logs EXCEPT ![k] = @ + 1]
    ELSE logs @@ (k :> 1)

\* The requests admitted on key k whose accounting has not run yet.
InFlight(k) ==
    {p \in Procs : /\ proc[p].pc \in {"handler", "account"}
                   /\ proc[p].kind = "admit"
                   /\ proc[p].cred = k}

\* Mutant: the usage is charged before the checks, also when they reject.
GateReject_charged(p, rq, d) ==
    /\ proc' = [proc EXCEPT ![p] = [rq EXCEPT !.pc = "rejected", !.kind = d.kind,
                                       !.status = d.status, !.detail = d.detail]]
    /\ apiKeys' = ChargeKey(apiKeys, rq.cred)
    /\ UNCHANGED apiLogs

\* raise HTTPException(...) in the gate: the request ends there.
GateReject(p, rq, d) ==
    /\ proc' = [proc EXCEPT ![p] = [rq EXCEPT !.pc = "rejected", !.kind = d.kind,
                                       !.status = d.status, !.detail = d.detail]]
    /\ UNCHANGED <<apiKeys, apiLogs>>

\* The gate lets the request on to call_next.
GateForward(p, rq, d) ==
    /\ proc' = [proc EXCEPT ![p] = [rq EXCEPT !.pc = "handler", !.kind = d.kind]]
    /\ UNCHANGED <<apiKeys, apiLogs>>

\* Lines 55-94 of the middleware for a new request of worker p.
Gate(p) ==
    /\ proc[p].pc = "idle"
    /\ \A k \in DOMAIN apiKeys :
          apiKeys[k].requests + Cardinality(InFlight(k)) < MaxReqs
    /\ \E method \in Methods, path \in Paths, cred \in Creds :
          LET r == KeyLookup(cred)
              d == GateDecision(method, path, cred, r, now)
              \* api_key is read from the header only past the open paths
              rq == [Idle EXCEPT !.path = path,
                                 !.cred = IF d.kind = "pass" THEN NoCred ELSE cred]
          IN  IF d.kind = "reject"
              THEN GateReject(p, rq, d)
              ELSE GateForward(p, rq, d)
    /\ UNCHANGED <<now, payVars, authVars,
                 sessVars, issueVars, plantVars>>

\* response = await call_next(request)
Handler(p) ==
    /\ proc[p].pc = "handler"
    /\ \E code \in HandlerStatus(proc[p].path, proc[p].kind) :
          proc' = [proc EXCEPT ![p].status = code, ![p].handled = TRUE,
                               ![p].pc = IF proc[p].kind = "admit"
                                         THEN "account" ELSE "done"]
    /\ UNCHANGED <<now, apiKeys, apiLogs, payVars, authVars,
                 sessVars, issueVars, plantVars>>

\* Lines 98-103: the accounting transaction after the response.
Account(p) ==
    /\ proc[p].pc = "account"
    /\ apiKeys' = ChargeKey(apiKeys, proc[p].cred)
    /\ apiLogs' = LogRequest(apiLogs, proc[p].cred)
    /\ proc' = [proc EXCEPT ![p].pc = "done"]
    /\ UNCHANGED <<now, payVars, authVars,
                 sessVars, issueVars, plantVars>>

\* The response (or the error) has gone to the client.
Respond(p) ==
    /\ proc[p].pc \in {"rejected", "done"}
    /\ proc' = [proc EXCEPT ![p] = Idle]
    /\ UNCHANGED <<now, apiKeys, apiLogs, payVars, authVars,
                 sessVars, issueVars, plantVars>>

\* Time passes.
Tick ==
    /\ now < MaxTime
    /\ now' = now + 1
    /\ UNCHANGED <<apiKeys, apiLogs, proc, payVars, authVars,
                 sessVars, issueVars, plantVars>>

(***************************************************************************)
(* GET /plants with its query parameters: the gate, get_plants, the usage  *)
(* accounting.  Requests come one after another.                           *)
(***************************************************************************)
\* The parameters of get_plants that add a condition to the query.
FilterNames ==
    {"view", "light", "zone_usda", "toxicity", "placement", "category"}

\* The query strings the callers send, as the sets of their parameter names.
QueryParams ==
    { {}, {"limit"}, {"light"}, {"toxicity"}, {"toxicity", "limit"} }

\* user_limit, and applied_limit = min(user_limit, plan_cap) if plan_cap
AppliedLimit(params, plan_cap) ==
    LET user_limit == IF "limit" \in params THEN 100 ELSE 50
    IN  IF plan_cap # NULL /\ plan_cap # 0 /\ plan_cap < user_limit
        THEN plan_cap ELSE user_limit

NoPlantsRequest ==
    [pc |-> "idle", cred |-> NoCred, params |-> {}, kind |-> "none",
     status |-> 0, detail |-> "", max_page |-> NULL, applied |-> {},
     limit |-> 0, executed |-> FALSE]

\* Lines 55-94 of the middleware for GET /plants; request.state.max_page
\* is all it hands on to the handler.
PlantsGate ==
    /\ preq.pc = "idle"
    /\ \A k \in DOMAIN apiKeys : apiKeys[k].requests < MaxReqs
    /\ \E cred \in Creds, params \in QueryParams :
          LET r == KeyLookup(cred)
              d == GateDecision("GET", "/plants", cred, r, now)
          IN  IF d.kind = "reject"
              THEN preq' = [NoPlantsRequest EXCEPT
                              !.pc = "rejected", !.cred = cred,
                              !.params = params, !.kind = d.kind,
                              !.status = d.status, !.detail = d.detail]
              ELSE preq' = [NoPlantsRequest EXCEPT
                              !.pc = "handler", !.cred = cred,
                              !.params = params, !.kind = d.kind,
                              !.max_page = r.max_page]
    /\ UNCHANGED <<now, apiKeys, zq, gateVars, payVars, authVars, sessVars,
                   issueVars>>

\* get_plants: every filter parameter present adds its condition, the query
\* runs with the limit, and the rows go back with status 200.
GetPlants ==
    /\ preq.pc = "handler"
    /\ preq' = [preq EXCEPT !.pc = "account",
                            !.applied = preq.params \cap FilterNames,
                            !.limit = AppliedLimit(preq.params, preq.max_page),
                            !.executed = TRUE,
                            !.status = 200]
    /\ UNCHANGED <<now, apiKeys, zq, gateVars, payVars, authVars, sessVars,
                   issueVars>>

\* Lines 98-101: the accounting transaction after the response.
PlantsAccount ==
    /\ preq.pc = "account"
    /\ apiKeys' = ChargeKey(apiKeys, preq.cred)
    /\ apiLogs' = LogRequest(apiLogs, preq.cred)
    /\ preq' = [preq EXCEPT !.pc = "done"]
    /\ UNCHANGED <<now, proc, zq, payVars, authVars, sessVars, issueVars>>

\* The response (or the error) has gone to the client.
PlantsRespond ==
    /\ preq.pc \in {"rejected", "done"}
    /\ preq' = NoPlantsRequest
    /\ UNCHANGED <<now, apiKeys, zq, gateVars, payVars, authVars, sessVars,
                   issueVars>>

(***************************************************************************)
(* The zone filter of get_plants: the condition its SQL puts on the        *)
(* column filter_zone_usda, computed on the characters of the stored       *)
(* value.  "en" and "em" stand for the en dash and the em dash.            *)
(***************************************************************************)
DigitChars == <<"0", "1", "2", "3", "4", "5", "6", "7", "8", "9">>
Dashes == {"-", "en", "em"}

\* The decimal numeral of n.
RECURSIVE Decimal(_)
Decimal(n) ==
    IF n < 10 THEN <<DigitChars[n + 1]>>
    ELSE Decimal(n \div 10) \o <<DigitChars[(n % 10) + 1]>>

\* int(...) in Python and ::int in SQL, on a numeral.
RECURSIVE ParseInt(_)
ParseInt(str) ==
    IF Len(str) = 0 THEN 0
    ELSE 10 * ParseInt(SubSeq(str, 1, Len(str) - 1))
         + (CHOOSE v \in 0..9 : DigitChars[v + 1] = str[Len(str)])

\* REPLACE(str, from, to) for one-character from and to.
Replace(str, from, to) ==
    [i \in 1..Len(str) |-> IF str[i] = from THEN to ELSE str[i]]

\* POSITION(c IN str): the first index of c, 0 when there is none.
Position(c, str) ==
    IF \E i \in 1..Len(str) : str[i] = c
    THEN CHOOSE i \in 1..Len(str) :
            str[i] = c /\ \A j \in 1..(i - 1) : str[j] # c
    ELSE 0

\* SPLIT_PART(str, c, n)
RECURSIVE SplitPart(_, _, _)
SplitPart(str, c, n) ==
    LET p == Position(c, str)
    IN  IF n = 1
        THEN IF p = 0 THEN str ELSE SubSeq(str, 1, p - 1)
        ELSE IF p = 0 THEN <<>>
             ELSE SplitPart(SubSeq(str, p + 1, Len(str)), c, n - 1)

\* The zones a query may name (the Literal of zone_usda) and the zones a
\* stored value may name.
QueriedZones == 2..12
StoredZones == 1..MaxStoredZone

\* A well-formed stored value: the single zone a, or the range a-b written
\* with one of the dashes.
StoredZone(a, b, dash) ==
    IF dash = "" THEN Decimal(a) ELSE Decimal(a) \o <<dash>> \o Decimal(b)

\* The condition of lines 143-160 on a stored value, for the parameter
\* zone_usda = z_input.
ZoneSelected(z_input, stored) ==
    LET z == ParseInt(z_input)
        zmin == IF z - 1 > 1 THEN z - 1 ELSE 1
        zmax == IF z + 1 < 12 THEN z + 1 ELSE 12
        norm == Replace(Replace(stored, "en", "-"), "em", "-")
        lo == IF Position("-", norm) > 0 THEN SplitPart(norm, "-", 1) ELSE norm
        hi == IF Position("-", norm) > 0 THEN SplitPart(norm, "-", 2) ELSE norm
    IN  /\ Len(stored) > 0
        /\ ParseInt(lo) <= zmax
        /\ ParseInt(hi) >= zmin

\* The query runs against the stored value.
ZoneFilter ==
    /\ zq.pc = "query"
    /\ zq' = [zq EXCEPT !.pc = "done",
                        !.selected = ZoneSelected(Decimal(zq.z), zq.stored)]
    /\ UNCHANGED <<now, apiKeys, preq, gateVars, payVars, authVars, sessVars,
                   issueVars>>

(***************************************************************************)
(* The payment webhook: yookassa_webhook and its background task           *)
(* update_status_and_key.                                                  *)
(***************************************************************************)
\* Table plans: name -> limits (reference data, seeded out of band).
PlanTable ==
    ( "free"    :> [limit_total |-> MaxQuota, max_page |-> 20] ) @@
    ( "premium" :> [limit_total |-> NULL, max_page |-> 100] )

\* SELECT limit_total, max_page FROM plans WHERE LOWER(name)=LOWER(:p),
\* and the None of both when the plan has no row.
PlanLimits(plan) ==
    IF plan \in DOMAIN PlanTable
    THEN PlanTable[plan]
    ELSE [limit_total |-> NULL, max_page |-> NULL]

\* payment_obj.get("id") is None or empty.
NoPid == 0
\* A payment with a pending_payments row, and one the store has never seen.
PaidId == 1
LostId == 2
PaymentIds == {NoPid, PaidId, LostId}
Statuses == {"pending", "succeeded", "canceled"}
Events == {"payment.succeeded", "payment.canceled"}

PaymentRow(pl, em, st, key, at) ==
    [plan_name |-> pl, email |-> em, status |-> st, api_key |-> key,
     paid_at |-> at]

\* secrets.token_hex(32): a token no row carries yet.
RECURSIVE MaxOf(_)
MaxOf(S) ==
    IF S = {} THEN 0
    ELSE LET x == CHOOSE y \in S : TRUE
             m == MaxOf(S \ {x})
         IN  IF x > m THEN x ELSE m

NewToken(keys) == MaxOf(DOMAIN keys \cup {Stranger}) + 1

Deliveries == 1..MaxDeliveries

NotDelivered ==
    [pc |-> "new", pid |-> NoPid, status |-> "pending", alert |-> FALSE,
     resp |-> 0]

\* Mutant: the status update creates the row when the payment has none.
SetStatus_upsert(pp, pid, st) ==
    IF pid \in DOMAIN pp
    THEN [i \in DOMAIN pp |-> IF i = pid THEN [pp[i] EXCEPT !.status = st] ELSE pp[i]]
    ELSE pp @@ (pid :> [plan_name |-> "premium", email |-> "", status |-> st,
                        api_key |-> NULL, paid_at |-> NULL])

\* UPDATE pending_payments SET status = :status WHERE payment_id = :pid
SetStatus(pp, pid, st) ==
    [i \in DOMAIN pp |-> IF i = pid THEN [pp[i] EXCEPT !.status = st] ELSE pp[i]]

\* Mutant: the UPDATE sets the api_key and leaves paid_at as it is.
SetKey_noPaidAt(pp, pid, k, t) ==
    [i \in DOMAIN pp |->
        IF i = pid THEN [pp[i] EXCEPT !.api_key = k] ELSE pp[i]]

\* UPDATE pending_payments SET api_key = :k, paid_at = NOW() WHERE payment_id = :pid
SetKey(pp, pid, k, t) ==
    [i \in DOMAIN pp |->
        IF i = pid THEN [pp[i] EXCEPT !.api_key = k, !.paid_at = t] ELSE pp[i]]

\* The test that guards the key issuance in update_status_and_key.
IssuesKey(pp, pid, st) == st = "succeeded" /\ pid \in DOMAIN pp

\* The request handler: parse the payload, queue the background tasks.
\* A missing payment id raises HTTPException(400) inside the try block,
\* which the handler's own except clause turns into a 500.
Webhook(d) ==
    /\ deliv[d].pc = "new"
    /\ \A e \in Deliveries : e < d => deliv[e].pc # "new"
    /\ \E pid \in PaymentIds, st \in Statuses, ev \in Events :
          IF pid = NoPid
          THEN deliv' = [deliv EXCEPT ![d] = [NotDelivered EXCEPT
                             !.pc = "failed", !.status = st, !.resp = 500]]
          ELSE deliv' = [deliv EXCEPT ![d] = [NotDelivered EXCEPT
                             !.pc = "queued", !.pid = pid, !.status = st,
                             !.alert = (ev = "payment.succeeded"),
                             !.resp = 200]]
    /\ UNCHANGED <<now, apiKeys, pendingPayments, gateVars, authVars,
                 sessVars, issueVars, plantVars>>

\* The background task update_status_and_key: one transaction; its first
\* UPDATE holds the lock of the payment's row until the commit.
UpdateStatusAndKey(d) ==
    /\ deliv[d].pc = "queued"
    /\ LET pid == deliv[d].pid
           st == deliv[d].status
           pp1 == SetStatus(pendingPayments, pid, st)
           k == NewToken(apiKeys)
       IN  IF IssuesKey(pp1, pid, st)
           THEN LET lim == PlanLimits(pp1[pid].plan_name)
                IN  /\ apiKeys' = apiKeys @@
                          (k :> KeyRow(k, pp1[pid].email, pp1[pid].plan_name,
                                       TRUE, NULL, lim.limit_total,
                                       lim.max_page, 0))
                    /\ pendingPayments' = SetKey(pp1, pid, k, now)
           ELSE /\ pendingPayments' = pp1
                /\ UNCHANGED apiKeys
    /\ deliv' = [deliv EXCEPT ![d].pc = IF deliv[d].alert THEN "alert" ELSE "done"]
    /\ UNCHANGED <<now, gateVars, authVars,
                 sessVars, issueVars, plantVars>>

\* How a send_alert call ends: the message is sent (or the notifier is not
\* configured and returns at once); the service answers with an error or
\* times out, which send_alert prints; int(TELEGRAM_CHAT_ID) raises outside
\* its try block and the exception leaves the task.
AlertOutcomes == {"sent", "service_error", "raised"}

\* Mutant: a failed alert takes the payment's key back.
SendAlert_rollsBack(d) ==
    /\ deliv[d].pc = "alert"
    /\ \E outcome \in AlertOutcomes :
          /\ deliv' = [deliv EXCEPT ![d].pc = IF outcome = "sent" THEN "done"
                                              ELSE "alert_failed"]
          /\ pendingPayments' =
                IF outcome = "sent" THEN pendingPayments
                ELSE SetKey(pendingPayments, deliv[d].pid, NULL, NULL)
    /\ UNCHANGED <<now, apiKeys, gateVars, authVars,
                 sessVars, issueVars, plantVars>>

\* The background task send_alert, run after update_status_and_key has
\* returned: it touches no table, whatever its outcome.
SendAlert(d) ==
    /\ deliv[d].pc = "alert"
    /\ \E outcome \in AlertOutcomes :
          deliv' = [deliv EXCEPT ![d].pc = IF outcome = "sent" THEN "done"
                                           ELSE "alert_failed"]
    /\ UNCHANGED <<now, apiKeys, pendingPayments, gateVars, authVars,
                 sessVars, issueVars, plantVars>>

\* Time passes.
PayTick ==
    /\ now < MaxTime
    /\ now' = now + 1
    /\ UNCHANGED <<apiKeys, pendingPayments, deliv, gateVars, authVars,
                 sessVars, issueVars, plantVars>>

(***************************************************************************)
(* The payment session: POST /api/payment/session                          *)
(* (create_payment_session).  The YooKassa credentials are configured.     *)
(***************************************************************************)
\* The query parameter plan as the caller writes it; "" when it is omitted.
PlanParams == {"", "free", "Free", "premium", "gold"}

\* str.lower on the plan names callers send.
Lower(str) ==
    IF str = "Free" THEN "free"
    ELSE IF str = "Premium" THEN "premium"
    ELSE str

\* data.get("plan", "free").lower()
SessionPlan(param) == IF param = "" THEN "free" ELSE Lower(param)

\* SELECT price_rub FROM plans WHERE LOWER(name)=:p returns a row.
PlanFound(plan) == plan \in DOMAIN PlanTable

\* payment_data["id"]: the id the processor gives the payment of call c.
NewPaymentId(c) == LostId + c

SessCalls == 1..NumSessions

NoSession ==
    [pc |-> "new", param |-> "", plan |-> "", contacted |-> FALSE,
     pid |-> NoPid, status |-> 0]

\* Lines 296-307: the parameters and the price lookup; a plan without a row
\* raises HTTPException(404).
SessionLookup(c) ==
    /\ sess[c].pc = "new"
    /\ \A e \in SessCalls : e < c => sess[e].pc # "new"
    /\ \E param \in PlanParams :
          LET plan == SessionPlan(param)
          IN  IF ~PlanFound(plan)
              THEN sess' = [sess EXCEPT ![c] = [NoSession EXCEPT
                               !.pc = "failed", !.param = param,
                               !.plan = plan, !.status = 404]]
              ELSE sess' = [sess EXCEPT ![c] = [NoSession EXCEPT
                               !.pc = "post", !.param = param, !.plan = plan]]
    /\ UNCHANGED <<now, apiKeys, gateVars, payVars, authVars, issueVars,
                   plantVars>>

\* Lines 340-349: requests.post to the processor; an answer other than
\* 200/201 raises HTTPException(500).
SessionPost(c) ==
    /\ sess[c].pc = "post"
    /\ \E ok \in BOOLEAN :
          IF ok
          THEN sess' = [sess EXCEPT ![c].pc = "insert", ![c].contacted = TRUE,
                                    ![c].pid = NewPaymentId(c)]
          ELSE sess' = [sess EXCEPT ![c].pc = "failed", ![c].contacted = TRUE,
                                    ![c].status = 500]
    /\ UNCHANGED <<now, apiKeys, gateVars, payVars, authVars, issueVars,
                   plantVars>>

\* Lines 351-360: INSERT INTO pending_payments (..., status) VALUES (..., 'pending')
SessionInsert(c) ==
    /\ sess[c].pc = "insert"
    /\ pendingPayments' = pendingPayments @@
           (sess[c].pid :> PaymentRow(sess[c].plan, "a@b.com", "pending",
                                      NULL, NULL))
    /\ sess' = [sess EXCEPT ![c].pc = "done", ![c].status = 200]
    /\ UNCHANGED <<now, apiKeys, deliv, gateVars, authVars, issueVars,
                   plantVars>>

(***************************************************************************)
(* The self-service key: POST /create_user_key (create_user_key), which    *)
(* reads the caller's latest free key on a connection of its own and then  *)
(* calls generate_api_key, and POST /generate_key (generate_api_key        *)
(* itself), whose transaction deactivates the owner's active keys and      *)
(* inserts the new row.  Time is counted in days.                          *)
(***************************************************************************)
\* timedelta(hours=24)
Day == 1
\* timedelta(days=90)
FreeKeyDays == 90

\* request.client.host of the callers.
ClientIps == {"10.0.0.1", "10.0.0.2"}

\* The query parameter plan of /create_user_key; "" when it is omitted.
UserKeyParams == {"", "free", "premium"}

UkCalls == 1..NumIssues

NoUserKey ==
    [pc |-> "new", via |-> "", ip |-> "", plan |-> "", targets |-> {},
     at |-> 0, status |-> 0, api_key |-> NoCred]

\* SELECT created_at FROM api_keys WHERE plan_name='free' AND owner=:ip
\* ORDER BY created_at DESC LIMIT 1
LatestFreeKey(ip) ==
    LET mine == {k \in DOMAIN apiKeys :
                    apiKeys[k].plan_name = "free" /\ apiKeys[k].owner = ip}
    IN  IF mine = {} THEN NULL ELSE MaxOf({keyCreated[k] : k \in mine})

\* if row and (datetime.utcnow() - row.created_at) < timedelta(hours=24)
TooSoon(created, t) == created # NULL /\ t - created < Day

\* Lines 218-229 of create_user_key: the caller, the plan and, for the free
\* plan, the test of the 24 hours since the caller's latest free key; then
\* the call of generate_api_key with the master key and the plan as given.
CreateUserKey(c) ==
    /\ ukey[c].pc = "new"
    /\ \A e \in UkCalls : e < c => ukey[e].pc # "new"
    /\ \E ip \in ClientIps, param \in UserKeyParams :
          LET plan == SessionPlan(param)
          IN  IF plan = "free" /\ TooSoon(LatestFreeKey(ip), now)
              THEN ukey' = [ukey EXCEPT ![c] = [NoUserKey EXCEPT
                              !.pc = "failed", !.via = "user", !.ip = ip,
                              !.plan = plan, !.status = 429]]
              ELSE ukey' = [ukey EXCEPT ![c] = [NoUserKey EXCEPT
                              !.pc = "issue", !.via = "user", !.ip = ip,
                              !.plan = plan]]
    /\ UNCHANGED <<now, apiKeys, keyCreated, gateVars, payVars, authVars,
                   sessVars, plantVars>>

\* The X-API-Key values the callers of /generate_key present, MASTER_KEY
\* among them, and the owner and plan parameters they send.
MASTER_KEY == "master"
AdminKeys == {MASTER_KEY, "guess"}
AdminOwners == {"10.0.0.1", " Bob "}
AdminPlans == {"free", "premium"}

\* owner.strip().lower(), and LOWER(owner) on the owners stored.
StripLower(str) == IF str = " Bob " THEN "bob" ELSE Lower(str)

\* POST /generate_key, lines 242-247: a credential other than MASTER_KEY
\* raises HTTPException(403).
GenerateKey(c) ==
    /\ ukey[c].pc = "new"
    /\ \A e \in UkCalls : e < c => ukey[e].pc # "new"
    /\ \E key \in AdminKeys, owner \in AdminOwners, plan \in AdminPlans :
          IF key # MASTER_KEY
          THEN ukey' = [ukey EXCEPT ![c] = [NoUserKey EXCEPT
                          !.pc = "failed", !.via = key, !.ip = owner,
                          !.plan = plan, !.status = 403]]
          ELSE ukey' = [ukey EXCEPT ![c] = [NoUserKey EXCEPT
                          !.pc = "issue", !.via = key, !.ip = owner,
                          !.plan = plan]]
    /\ UNCHANGED <<now, apiKeys, keyCreated, gateVars, payVars, authVars,
                   sessVars, plantVars>>

\* The rows of UPDATE api_keys SET active=FALSE WHERE LOWER(owner)=:o AND
\* active=TRUE: those committed when the statement starts.
OwnerTargets(keys, o) ==
    {k \in DOMAIN keys : StripLower(keys[k].owner) = o /\ keys[k].active}

\* The rows T with active set to FALSE.
Deactivate(keys, T) ==
    [k \in DOMAIN keys |->
        IF k \in T THEN [keys[k] EXCEPT !.active = FALSE] ELSE keys[k]]

\* The UPDATE of generate_api_key's transaction.  A row that another open
\* transaction has deactivated makes the statement wait for that commit
\* and is then skipped; a row another open transaction has inserted is not
\* seen at all.
GenerateApiKeyUpdate(c) ==
    /\ ukey[c].pc = "issue"
    /\ ukey' = [ukey EXCEPT ![c].pc = "insert", ![c].at = now,
                            ![c].targets =
                                OwnerTargets(apiKeys, StripLower(ukey[c].ip))]
    /\ UNCHANGED <<now, apiKeys, keyCreated, gateVars, payVars, authVars,
                   sessVars, plantVars>>

\* The INSERT of generate_api_key's transaction and its commit: the rows
\* of the UPDATE are inactive and the new row is there, expiring after 90
\* days when the plan is free.
GenerateApiKey(c) ==
    /\ ukey[c].pc = "insert"
    /\ LET o == StripLower(ukey[c].ip)
           plan == ukey[c].plan
           k == NewToken(apiKeys)
           lim == PlanLimits(plan)
           expires == IF plan = "free" THEN ukey[c].at + FreeKeyDays ELSE NULL
       IN  /\ apiKeys' = Deactivate(apiKeys, ukey[c].targets) @@
                  (k :> KeyRow(k, o, plan, TRUE, expires, lim.limit_total,
                               lim.max_page, 0))
           /\ keyCreated' = keyCreated @@ (k :> ukey[c].at)
           /\ ukey' = [ukey EXCEPT ![c].pc = "done", ![c].status = 200,
                                   ![c].api_key = k]
    /\ UNCHANGED <<now, gateVars, payVars, authVars, sessVars, plantVars>>

(***************************************************************************)
(* The passwordless login: POST /auth/verify (verify_login_token).         *)
(* The call is one transaction at the store's default isolation (read      *)
(* committed): its SELECT takes no lock and sees what is committed; its     *)
(* UPDATEs wait for a concurrent writer of the same row and then apply, so  *)
(* the writes of a call take effect together, at its commit.               *)
(***************************************************************************)
\* The user of the login tokens, two tokens issued to it by request-login,
\* and a token no row carries.
UserA == 1
TokA == 1
TokB == 2
NoSuchToken == 3
LoginTokens == {TokA, TokB, NoSuchToken}

\* An api_key the user holds from an earlier login.
OldKey == 0

Calls == 1..NumCalls

NotCalled ==
    [pc |-> "new", token |-> NoSuchToken, user_id |-> 0, seen_key |-> NULL,
     status |-> 0, detail |-> "", api_key |-> NULL]

\* secrets.token_hex(32) of call c: a key no other call mints.
MintedKey(c) == c

\* The row of the SELECT ... JOIN ... WHERE t.token = :token, if any.
TokenFound(token) ==
    token \in DOMAIN authTokens /\ authTokens[token].user_id \in DOMAIN users

\* Mutant: the expiry of the row is not tested.
VerifyCheck_ignoresExpiry(token, t) ==
    IF ~TokenFound(token) THEN "invalid_token"
    ELSE IF authTokens[token].used THEN "token_already_used"
    ELSE "ok"

\* Mutant: the used flag of the row is not tested.
VerifyCheck_ignoresUsed(token, t) ==
    IF ~TokenFound(token) THEN "invalid_token"
    ELSE IF authTokens[token].expires_at < t THEN "token_expired"
    ELSE "ok"

\* The three tests on the row read, in the order of the code.
VerifyCheck(token, t) ==
    IF ~TokenFound(token) THEN "invalid_token"
    ELSE IF authTokens[token].used THEN "token_already_used"
    ELSE IF authTokens[token].expires_at < t THEN "token_expired"
    ELSE "ok"

\* The SELECT and the tests of a call; a failed test raises
\* HTTPException(400) and the transaction rolls back, having written nothing.
VerifyRead(c) ==
    /\ call[c].pc = "new"
    /\ \A e \in Calls : e < c => call[e].pc # "new"
    /\ \E token \in LoginTokens :
          LET v == VerifyCheck(token, now)
          IN  IF v = "ok"
              THEN call' = [call EXCEPT ![c] = [NotCalled EXCEPT
                       !.pc = "write", !.token = token,
                       !.user_id = authTokens[token].user_id,
                       !.seen_key = users[authTokens[token].user_id].api_key]]
              ELSE call' = [call EXCEPT ![c] = [NotCalled EXCEPT
                       !.pc = "failed", !.token = token,
                       !.status = 400, !.detail = v]]
    /\ UNCHANGED <<now, apiKeys, users, authTokens, gateVars, payVars,
                 sessVars, issueVars, plantVars>>

\* The UPDATEs of a call and its commit: the token is marked used, and the
\* user gets a new api_key if the row read showed none.
VerifyWrite(c) ==
    /\ call[c].pc = "write"
    /\ LET uid == call[c].user_id
           key == IF call[c].seen_key = NULL THEN MintedKey(c)
                  ELSE call[c].seen_key
       IN  /\ authTokens' = [authTokens EXCEPT ![call[c].token].used = TRUE]
           /\ users' = IF call[c].seen_key = NULL
                       THEN [users EXCEPT ![uid].api_key = key,
                                           ![uid].last_login = now]
                       ELSE [users EXCEPT ![uid].last_login = now]
           /\ call' = [call EXCEPT ![c].pc = "done", ![c].status = 200,
                                   ![c].detail = "ok", ![c].api_key = key]
    /\ UNCHANGED <<now, apiKeys, gateVars, payVars,
                 sessVars, issueVars, plantVars>>

\* Time passes.
AuthTick ==
    /\ now < MaxTime
    /\ now' = now + 1
    /\ UNCHANGED <<apiKeys, users, authTokens, call, gateVars, payVars,
                 sessVars, issueVars, plantVars>>

(***************************************************************************)
(* The other components at rest: no payment, no delivery, no login.        *)
(***************************************************************************)
PayQuiet ==
    /\ pendingPayments = [i \in {} |-> 0]
    /\ deliv = <<>>

AuthQuiet ==
    /\ users = [i \in {} |-> 0]
    /\ authTokens = [i \in {} |-> 0]
    /\ call = <<>>

GateQuiet ==
    /\ apiLogs = [k \in {} |-> 0]
    /\ proc = [p \in Procs |-> Idle]

SessQuiet == sess = <<>>

IssueQuiet ==
    /\ keyCreated = [k \in {} |-> 0]
    /\ ukey = <<>>

PlantQuiet ==
    /\ preq = <<>>
    /\ zq = <<>>

(***************************************************************************)
(* Specifications of the gate.                                             *)
(***************************************************************************)
\* A store of one key row: active or not, without an expiry or expiring as
\* soon as time passes, with or without a limit, not yet used or used up to
\* its limit.
GateInit ==
    /\ now = 0
    /\ \E act \in BOOLEAN, exp \in {NULL, 0},
          lt \in {NULL} \cup 0..MaxQuota :
          \E rq \in {0} \cup ({lt} \ {NULL}) :
             apiKeys = (KeyA :> KeyRow(KeyA, "10.0.0.1", "free", act, exp,
                                       lt, NULL, rq))
    /\ apiLogs = [k \in {} |-> 0]
    /\ proc = [p \in Procs |-> Idle]
    /\ PayQuiet
    /\ AuthQuiet
    /\ SessQuiet
    /\ IssueQuiet
    /\ PlantQuiet

\* The same store with the key freshly issued: no request charged yet.
FreshInit ==
    /\ GateInit
    /\ apiKeys[KeyA].requests = 0

GateNext ==
    \/ Tick
    \/ \E p \in Procs : Gate(p) \/ Handler(p) \/ Account(p) \/ Respond(p)

\* One worker: requests one after another.
SeqNext ==
    \/ Tick
    \/ Gate(1) \/ Handler(1) \/ Account(1) \/ Respond(1)

\* One payment session has been created and awaits its confirmation.
PayInit ==
    /\ now = 0
    /\ apiKeys = NoRows
    /\ \E pl \in {"premium", "free"} :
          pendingPayments =
              (PaidId :> PaymentRow(pl, "a@b.com", "pending", NULL, NULL))
    /\ deliv = [d \in Deliveries |-> NotDelivered]
    /\ GateQuiet
    /\ AuthQuiet
    /\ SessQuiet
    /\ IssueQuiet
    /\ PlantQuiet

PayNext ==
    \/ PayTick
    \/ \E d \in Deliveries : Webhook(d) \/ UpdateStatusAndKey(d) \/ SendAlert(d)

PaySpec == PayInit /\ [][PayNext]_vars

\* The deferred task of a delivery runs once the response has gone out: the
\* server does not leave a queued update_status_and_key waiting for ever.
PayFairSpec ==
    /\ PayInit
    /\ [][PayNext]_vars
    /\ \A d \in Deliveries : WF_vars(UpdateStatusAndKey(d))

\* One user, with or without an api_key, and two unused login tokens.
AuthInit ==
    /\ now = 0
    /\ apiKeys = NoRows
    /\ \E key \in {NULL, OldKey} :
          users = (UserA :> [api_key |-> key, last_login |-> NULL])
    /\ \E ea \in 0..MaxTime, eb \in 0..MaxTime :
          authTokens =
              (TokA :> [user_id |-> UserA, expires_at |-> ea, used |-> FALSE])
              @@ (TokB :> [user_id |-> UserA, expires_at |-> eb, used |-> FALSE])
    /\ call = [c \in Calls |-> NotCalled]
    /\ GateQuiet
    /\ PayQuiet
    /\ SessQuiet
    /\ IssueQuiet
    /\ PlantQuiet

\* No payment yet; the callers of /api/payment/session have not called.
SessInit ==
    /\ now = 0
    /\ apiKeys = NoRows
    /\ pendingPayments = [i \in {} |-> 0]
    /\ deliv = <<>>
    /\ sess = [c \in SessCalls |-> NoSession]
    /\ GateQuiet
    /\ AuthQuiet
    /\ IssueQuiet
    /\ PlantQuiet

SessNext ==
    \E c \in SessCalls : SessionLookup(c) \/ SessionPost(c) \/ SessionInsert(c)

SessSpec == SessInit /\ [][SessNext]_vars

\* No key yet; the callers of /create_user_key have not called.
IssueInit ==
    /\ now = 0
    /\ apiKeys = NoRows
    /\ keyCreated = [k \in {} |-> 0]
    /\ ukey = [c \in UkCalls |-> NoUserKey]
    /\ GateQuiet
    /\ PayQuiet
    /\ AuthQuiet
    /\ SessQuiet
    /\ PlantQuiet

IssueNext ==
    \/ Tick
    \/ \E c \in UkCalls :
          \/ CreateUserKey(c)
          \/ GenerateKey(c)
          \/ GenerateApiKeyUpdate(c)
          \/ GenerateApiKey(c)

IssueSpec == IssueInit /\ [][IssueNext]_vars

\* A store of one active key of the free plan, with or without an expiry.
PlantsInit ==
    /\ now = 0
    /\ \E exp \in {NULL, 0}, lt \in {NULL, MaxQuota} :
          apiKeys = (KeyA :> KeyRow(KeyA, "10.0.0.1", "free", TRUE, exp, lt,
                                    PlanTable["free"].max_page, 0))
    /\ apiLogs = [k \in {} |-> 0]
    /\ proc = [p \in Procs |-> Idle]
    /\ preq = NoPlantsRequest
    /\ zq = <<>>
    /\ PayQuiet
    /\ AuthQuiet
    /\ SessQuiet
    /\ IssueQuiet

PlantsNext ==
    Tick \/ PlantsGate \/ GetPlants \/ PlantsAccount \/ PlantsRespond

PlantsSpec == PlantsInit /\ [][PlantsNext]_vars

\* A query for zone z against a record whose stored value names the zone a
\* or the range a-b.
ZoneInit ==
    /\ now = 0
    /\ apiKeys = NoRows
    /\ \E z \in QueriedZones, a \in StoredZones, b \in StoredZones,
          dash \in Dashes \cup {""} :
          /\ a <= b
          /\ dash = "" => a = b
          /\ zq = [pc |-> "query", z |-> z, a |-> a, b |-> b,
                   stored |-> StoredZone(a, b, dash), selected |-> FALSE]
    /\ preq = <<>>
    /\ GateQuiet
    /\ PayQuiet
    /\ AuthQuiet
    /\ SessQuiet
    /\ IssueQuiet

ZoneNext == ZoneFilter

ZoneSpec == ZoneInit /\ [][ZoneNext]_vars

AuthNext ==
    \/ AuthTick
    \/ \E c \in Calls : VerifyRead(c) \/ VerifyWrite(c)

AuthSpec == AuthInit /\ [][AuthNext]_vars

GateSpec == GateInit /\ [][GateNext]_vars
FreshSpec == FreshInit /\ [][GateNext]_vars
SeqSpec == FreshInit /\ [][SeqNext]_vars


(***************************************************************************)
(* Properties of the gate.                                                 *)
(***************************************************************************)
\* Worker p takes a new request through the gate in this step.
GateStep(p) == proc[p].pc = "idle" /\ proc'[p].pc # "idle"

\* The request worker p has just taken is for a non-exempt path and
\* presents the token of key row k.
Presents(p, k) == GateStep(p) /\ proc'[p].cred = k

\* A request the gate rejected goes back to the client and nowhere else.
RejectedEnds(p) ==
    proc[p].pc = "rejected" =>
        /\ proc'[p].pc \in {"rejected", "idle"}
        /\ ~proc'[p].handled

\* C1: for a key with a quota Q, the requests admitted on it and its
\* usage_count never exceed Q, however the gate checks and the usage
\* increments of concurrent requests interleave.  (Stated for Q >= 1 and a
\* key issued with usage_count 0; the admitted requests are those charged
\* plus those past the gate and not yet charged.)
C1_NoOverAdmission ==
    \A k \in DOMAIN apiKeys :
        apiKeys[k].limit_total >= 1 =>
            /\ apiKeys[k].requests <= apiKeys[k].limit_total
            /\ apiKeys[k].requests + Cardinality(InFlight(k))
                   <= apiKeys[k].limit_total

C6_QuotaSequence ==
    [][\A p \in Procs : \A k \in DOMAIN apiKeys :
          ( /\ Presents(p, k)
            /\ apiKeys[k].active
            /\ ~(apiKeys[k].expires_at # NULL /\ apiKeys[k].expires_at < now)
            /\ apiKeys[k].limit_total # NULL )
          => IF apiKeys[k].requests < apiKeys[k].limit_total
             THEN proc'[p].pc = "handler"
             ELSE proc'[p].pc = "rejected" /\ proc'[p].status = 429]_vars

\* C7: the usage increment that brings usage_count up to the quota
\* deactivates the key in the same step.
C7_ExhaustionDeactivates ==
    [][\A k \in DOMAIN apiKeys :
          ( /\ apiKeys'[k].requests = apiKeys[k].requests + 1
            /\ apiKeys'[k].requests = apiKeys[k].limit_total )
          => ~apiKeys'[k].active]_vars

\* C8: the accounting of an admitted request adds 1 to the key's usage_count
\* after a non-error response and 0 after an error response.
C8_ErrorsNotCharged ==
    [][\A p \in Procs :
          (proc[p].pc = "account" /\ proc'[p].pc = "done")
          => apiKeys'[proc[p].cred].requests
                = apiKeys[proc[p].cred].requests
                  + (IF proc[p].status >= 400 THEN 0 ELSE 1)]_vars

\* C9: a request the gate rejects, for any of its five reasons, never reaches
\* the handler and leaves the store as it was: no usage_count changes and no
\* api_logs row is written, neither by the gate nor when the error goes out.
C9_RejectionChangesNothing ==
    [][\A p \in Procs :
          /\ (GateStep(p) /\ proc'[p].pc = "rejected")
                => /\ apiKeys' = apiKeys
                   /\ apiLogs' = apiLogs
                   /\ ~proc'[p].handled
          /\ (proc[p].pc = "rejected" /\ proc'[p] # proc[p])
                => /\ apiKeys' = apiKeys
                   /\ apiLogs' = apiLogs
          /\ RejectedEnds(p)]_vars

\* C9 witness: a request was rejected for an exhausted quota.
C9_Witness ==
    \E p \in Procs :
        /\ proc[p].pc = "rejected"
        /\ proc[p].status = 429
        /\ ~proc[p].handled

ExemptPaths == {"/health"}

\* C11: a request to an exempt path goes on to its handler whatever
\* credential it carries or lacks (none, a known key in any state, an
\* unknown token); neither the gate nor anything after it charges a key or
\* writes an api_logs row for it.
C11_ExemptPathPassed ==
    [][\A p \in Procs :
          /\ (GateStep(p) /\ proc'[p].path \in ExemptPaths)
                => /\ proc'[p].pc = "handler"
                   /\ proc'[p].kind = "pass"
                   /\ apiKeys' = apiKeys
                   /\ apiLogs' = apiLogs
          /\ (proc[p].kind = "pass" /\ proc'[p] # proc[p])
                => /\ proc'[p].pc \in {"done", "idle"}
                   /\ apiKeys' = apiKeys
                   /\ apiLogs' = apiLogs]_vars

\* C11 witness: /health has been served while the only key of the store is
\* inactive, so that no credential at all would pass the checks.
C11_Witness ==
    \E p \in Procs :
        /\ proc[p].pc = "done"
        /\ proc[p].path = "/health"
        /\ proc[p].kind = "pass"
        /\ proc[p].handled
        /\ proc[p].status = 200
        /\ ~apiKeys[KeyA].active
        /\ apiLogs = [k \in {} |-> 0]



(***************************************************************************)
(* Properties of GET /plants.                                              *)
(***************************************************************************)
\* The allowed_filter set of a plan that defines one, and the parameters
\* every plan may send (pagination, sort, search field).
allowed_filter == ("free" :> {"light"})
AlwaysAllowed == {"limit", "sort", "view"}

\* Request rq presents a key whose plan defines allowed_filter and carries
\* a query parameter outside that set and outside the always-allowed ones.
FilterNotPermitted(rq) ==
    /\ rq.cred \in DOMAIN apiKeys
    /\ apiKeys[rq.cred].plan_name \in DOMAIN allowed_filter
    /\ rq.params \ (allowed_filter[apiKeys[rq.cred].plan_name]
                        \cup AlwaysAllowed) # {}

\* C17: a GET /plants request with a query parameter outside the
\* allowed_filter set of its key's plan is answered with 403, its query is
\* not executed and the key's usage_count is not incremented for it.
C17_FilterOutsidePlanRejected ==
    /\ [](FilterNotPermitted(preq)
            => /\ ~preq.executed
               /\ preq.pc \in {"rejected", "done"} => preq.status = 403)
    /\ [][FilterNotPermitted(preq) => apiKeys' = apiKeys]_vars

\* C19: for every queried zone Z in 2..12 and every well-formed stored
\* value (the single zone a, read as [a, a], or the range a-b written with
\* a hyphen, an en dash or an em dash), the zone filter selects the record
\* exactly when a <= Z + 1 and b >= Z - 1, at the ends of the scale too.
C19_ZoneOverlap ==
    zq.pc = "done"
    => (zq.selected <=> (zq.a <= zq.z + 1 /\ zq.b >= zq.z - 1))

(***************************************************************************)
(* Properties of the payment webhook.                                      *)
(***************************************************************************)
\* The api_keys rows issued for payment pid (their owner is its email).
KeysOfPayment(pid) ==
    {k \in DOMAIN apiKeys : apiKeys[k].owner = pendingPayments[pid].email}

\* The update task of a "succeeded" delivery for pid has run.
Fulfilled(pid) ==
    \E d \in Deliveries :
        /\ deliv[d].pc \in {"alert", "alert_failed", "done"}
        /\ deliv[d].pid = pid
        /\ deliv[d].status = "succeeded"

\* C2: however often the "succeeded" webhook of a payment is delivered,
\* exactly one api_keys row is created for the payment.
C2_OneKeyPerPayment ==
    \A pid \in DOMAIN pendingPayments :
        /\ Cardinality(KeysOfPayment(pid)) <= 1
        /\ Fulfilled(pid) => Cardinality(KeysOfPayment(pid)) = 1

\* C12: once the api_key of a pending_payments row is set, no later webhook,
\* whatever its status, changes the row's api_key or paid_at.
C12_KeyWrittenOnce ==
    [][\A pid \in DOMAIN pendingPayments :
          pendingPayments[pid].api_key # NULL
          => /\ pendingPayments'[pid].api_key = pendingPayments[pid].api_key
             /\ pendingPayments'[pid].paid_at = pendingPayments[pid].paid_at]_vars

\* Delivery d is received by the handler in this step.
WebhookStep(d) == deliv[d].pc = "new" /\ deliv'[d].pc # "new"

\* C13: a webhook body without a payment id is answered with HTTP 400 and
\* changes no pending_payments row and no api_keys row.
C13_MissingIdIs400 ==
    [][\A d \in Deliveries :
          (WebhookStep(d) /\ deliv'[d].pid = NoPid)
          => /\ deliv'[d].resp = 400
             /\ pendingPayments' = pendingPayments
             /\ apiKeys' = apiKeys]_vars

\* Delivery d carries a payment id that no pending_payments row has.
UnknownPayment(dl) == dl.pid # NoPid /\ dl.pid \notin DOMAIN pendingPayments

\* C14: a webhook whose payment id matches no pending_payments row is
\* acknowledged with success and is a no-op for every status, "succeeded"
\* included: neither the handler nor its tasks create or modify a row of
\* pending_payments or api_keys.
C14_UnknownPaymentNoOp ==
    [][\A d \in Deliveries :
          /\ (WebhookStep(d) /\ UnknownPayment(deliv'[d]))
                => /\ deliv'[d].resp = 200
                   /\ deliv'[d].pc = "queued"
                   /\ pendingPayments' = pendingPayments
                   /\ apiKeys' = apiKeys
          /\ (UnknownPayment(deliv[d]) /\ deliv'[d] # deliv[d])
                => /\ deliv'[d].resp = 200
                   /\ pendingPayments' = pendingPayments
                   /\ apiKeys' = apiKeys]_vars

\* C14 witness: both tasks of a "succeeded" webhook for an unknown payment
\* have run, and the store holds what it held before.
C14_Witness ==
    \E d \in Deliveries :
        /\ deliv[d].pc = "done"
        /\ deliv[d].pid = LostId
        /\ deliv[d].status = "succeeded"
        /\ deliv[d].alert
        /\ deliv[d].resp = 200
        /\ apiKeys = NoRows
        /\ DOMAIN pendingPayments = {PaidId}
        /\ pendingPayments[PaidId].status = "pending"

\* C15: a payment session for the free plan, also when the plan parameter
\* is omitted, fails with UnsupportedPlan (400) without a request to the
\* processor; one for a plan the registry does not have fails with
\* UnknownPlan (400); neither inserts a pending_payments row.
C15_FreeOrUnknownPlanRefused ==
    /\ \A c \in SessCalls :
          (sess[c].pc # "new" /\ (sess[c].plan = "free" \/ ~PlanFound(sess[c].plan)))
          => /\ sess[c].pc = "failed"
             /\ sess[c].status = 400
             /\ ~sess[c].contacted
    /\ \A pid \in DOMAIN pendingPayments :
          /\ pendingPayments[pid].plan_name # "free"
          /\ PlanFound(pendingPayments[pid].plan_name)

\* C18: a failure of the alert of a "succeeded" webhook for a known payment
\* (the service answers with an error, times out, or send_alert raises)
\* neither prevents nor undoes the update of the pending_payments row and
\* the issuance of the key, and leaves the webhook's response a success.
C18_AlertFailureHarmless ==
    /\ [](\A d \in Deliveries :
            ( /\ deliv[d].pc \in {"alert", "alert_failed"}
              /\ deliv[d].status = "succeeded"
              /\ deliv[d].pid \in DOMAIN pendingPayments )
            => /\ deliv[d].resp = 200
               /\ pendingPayments[deliv[d].pid].api_key \in DOMAIN apiKeys
               /\ pendingPayments[deliv[d].pid].paid_at # NULL)
    /\ [][\A d \in Deliveries :
            (deliv[d].pc = "alert" /\ deliv'[d].pc # "alert")
            => /\ pendingPayments' = pendingPayments
               /\ apiKeys' = apiKeys
               /\ deliv'[d].resp = deliv[d].resp]_vars

\* C18 witness: the alert of a "succeeded" webhook for the known payment
\* has failed; the row is marked succeeded and holds the key issued.
C18_Witness ==
    \E d \in Deliveries :
        /\ deliv[d].pc = "alert_failed"
        /\ deliv[d].pid = PaidId
        /\ deliv[d].status = "succeeded"
        /\ deliv[d].resp = 200
        /\ pendingPayments[PaidId].status = "succeeded"
        /\ pendingPayments[PaidId].api_key \in DOMAIN apiKeys
        /\ apiKeys[pendingPayments[PaidId].api_key].active

\* The pending_payments row of pid holds a key of the row's plan and a
\* paid_at.
Paid(pid) ==
    /\ pendingPayments[pid].api_key \in DOMAIN apiKeys
    /\ apiKeys[pendingPayments[pid].api_key].plan_name
          = pendingPayments[pid].plan_name
    /\ pendingPayments[pid].paid_at # NULL

\* C20: when the deferred task of the webhook is scheduled fairly, every
\* webhook received with status "succeeded" for a payment that has a
\* pending_payments row is eventually followed by a state where an
\* api_keys row of the payment's plan exists and the pending_payments row
\* holds that key and a paid_at.
C20_SucceededEventuallyPaid ==
    \A d \in Deliveries :
        ( /\ deliv[d].pc = "queued"
          /\ deliv[d].status = "succeeded"
          /\ deliv[d].pid \in DOMAIN pendingPayments )
        ~> ( /\ deliv[d].pc # "queued"
             /\ deliv[d].pid \in DOMAIN pendingPayments
             /\ Paid(deliv[d].pid) )

\* C20 witness: the task of a "succeeded" webhook that queued no alert has
\* run and the payment's row holds a key of its plan.
C20_Witness ==
    \E d \in Deliveries :
        /\ deliv[d].pc = "done"
        /\ ~deliv[d].alert
        /\ deliv[d].status = "succeeded"
        /\ deliv[d].pid = PaidId
        /\ Paid(PaidId)

(***************************************************************************)
(* Properties of the self-service key.                                     *)
(***************************************************************************)
\* C16: for every owner (client IP), whatever the order and the overlap of
\* its POST /create_user_key calls for the free plan, no two free keys of
\* the owner are issued less than 24 hours apart.
C16_OneFreeKeyPerDay ==
    \A k1, k2 \in DOMAIN apiKeys :
        ( /\ k1 # k2
          /\ apiKeys[k1].plan_name = "free"
          /\ apiKeys[k2].plan_name = "free"
          /\ apiKeys[k1].owner = apiKeys[k2].owner
          /\ keyCreated[k1] <= keyCreated[k2] )
        => keyCreated[k2] - keyCreated[k1] >= Day

(***************************************************************************)
(* Properties of the login.                                                *)
(***************************************************************************)
\* C3: of the /auth/verify calls made with one token, at most one succeeds.
C3_OneVerifyPerToken ==
    \A t \in DOMAIN authTokens :
        Cardinality({c \in Calls : call[c].pc = "done" /\ call[c].token = t}) <= 1

\* Call c reads its token row in this step.
ReadStep(c) == call[c].pc = "new" /\ call'[c].pc # "new"

\* C4: once a /auth/verify call has succeeded for a token, the token is used
\* and stays used, and every call that comes after it with the same token
\* fails with 400 and changes no row, also while the token is unexpired.
C4_UsedTokenRejected ==
    /\ [](\A c \in Calls :
            call[c].pc = "done" => authTokens[call[c].token].used)
    /\ [][\A c \in Calls :
            /\ \A t \in DOMAIN authTokens :
                  (authTokens[t].used => authTokens'[t].used)
            /\ ( /\ ReadStep(c)
                 /\ call'[c].token \in DOMAIN authTokens
                 /\ authTokens[call'[c].token].used )
               => ( /\ call'[c].pc = "failed"
                    /\ call'[c].status = 400
                    /\ users' = users
                    /\ authTokens' = authTokens )
            /\ call[c].pc = "failed" => call'[c] = call[c]]_vars

\* C4 witness: after a successful call, a second call with the same token,
\* still unexpired, has been refused.
C4_Witness ==
    \E c, e \in Calls :
        /\ call[c].pc = "done"
        /\ call[e].pc = "failed"
        /\ call[e].token = call[c].token
        /\ call[e].detail = "token_already_used"
        /\ authTokens[call[e].token].expires_at >= now
\* C21: of the successful /auth/verify calls of a user, each made with a
\* token no other call uses, every one returns the api_key the user's row
\* holds afterwards: the key of the row is written at most once.
C21_OneKeyPerUser ==
    \A c \in Calls :
        ( /\ call[c].pc = "done"
          /\ \A e \in Calls \ {c} :
                call[e].pc = "new" \/ call[e].token # call[c].token )
        => call[c].api_key = users[call[c].user_id].api_key

\* The token call c has read has expired at the time of the read.
ReadsExpired(c) ==
    /\ ReadStep(c)
    /\ call'[c].token \in DOMAIN authTokens
    /\ authTokens[call'[c].token].expires_at < now

\* C22: a /auth/verify call with a token whose expires_at has passed fails
\* with 400 and changes neither the token's used flag nor the user's
\* api_key and last_login; a token becomes used only in the write of a call
\* that read it while it was unexpired.
C22_ExpiredTokenRejected ==
    [][\A c \in Calls :
          /\ ReadsExpired(c)
                => /\ call'[c].pc = "failed"
                   /\ call'[c].status = 400
                   /\ authTokens' = authTokens
                   /\ users' = users
          /\ (ReadStep(c) /\ call'[c].pc = "write")
                => authTokens[call'[c].token].expires_at >= now
          /\ \A t \in DOMAIN authTokens :
                (~authTokens[t].used /\ authTokens'[t].used)
                => \E e \in Calls : call[e].pc = "write" /\ call[e].token = t]_vars

\* C22 witness: a call with an expired token that nobody has used has been
\* refused, and the token is still unused.
C22_Witness ==
    \E c \in Calls :
        /\ call[c].pc = "failed"
        /\ call[c].detail = "token_expired"
        /\ call[c].status = 400
        /\ ~authTokens[call[c].token].used
        /\ users[UserA].last_login = NULL
\* C23: in every reachable state a pending_payments row that holds an
\* api_key has the status "succeeded", also after a webhook with another
\* status arrives late for a payment that is already fulfilled.
C23_KeyImpliesSucceeded ==
    \A pid \in DOMAIN pendingPayments :
        pendingPayments[pid].api_key # NULL
        => pendingPayments[pid].status = "succeeded"
\* C24: every api_keys row created by POST /create_user_key has the plan
\* "free", with the free plan's quota and an expiry; keys of other plans
\* come from /generate_key with the master credential or from a payment.
C24_UserKeysAreFree ==
    \A c \in UkCalls :
        (ukey[c].pc = "done" /\ ukey[c].via = "user")
        => /\ apiKeys[ukey[c].api_key].plan_name = "free"
           /\ apiKeys[ukey[c].api_key].limit_total = PlanTable["free"].limit_total
           /\ apiKeys[ukey[c].api_key].expires_at # NULL

\* Call c of generate_api_key commits in this step.
IssueStep(c) == ukey[c].pc = "insert" /\ ukey'[c].pc = "done"

\* C25: when generate_key(owner, plan) with the master credential
\* completes, the new key is the only active key of the trimmed,
\* lower-cased owner and the owner's earlier keys are still there,
\* inactive; no step deletes an api_keys row or makes an inactive key
\* active again; a call with another credential fails with 403 and changes
\* nothing.
C25_OneActiveKeyPerOwner ==
    [][/\ \A c \in UkCalls :
            /\ IssueStep(c)
                  => \A k \in DOMAIN apiKeys' :
                        apiKeys'[k].owner = StripLower(ukey[c].ip)
                        => (apiKeys'[k].active <=> k = ukey'[c].api_key)
            /\ ( /\ ukey[c].pc = "new" /\ ukey'[c].pc # "new"
                 /\ ukey'[c].via \in AdminKeys \ {MASTER_KEY} )
                  => /\ ukey'[c].pc = "failed"
                     /\ ukey'[c].status = 403
                     /\ apiKeys' = apiKeys
       /\ \A k \in DOMAIN apiKeys :
            /\ k \in DOMAIN apiKeys'
            /\ ~apiKeys[k].active => ~apiKeys'[k].active]_vars
====
